---------------------------- MODULE Spec2Model ----------------------------
(***************************************************************************)
(* A model of the performance dashboard (src/app.py): load_data, the       *)
(* sidebar widgets, compute_summary, the top-N cut of the category summary *)
(* and the top-products table.  The script is re-run from top to bottom    *)
(* whenever a widget changes, so every widget action below recomputes all  *)
(* derived tables.                                                         *)
(*                                                                         *)
(* Numbers: sales and cost values are integers; a quotient (AOV, the mean  *)
(* of AOVs) is an exact fraction [num, den] in lowest terms, with den = 0  *)
(* standing for the IEEE results of a division by zero (inf, NaN).         *)
(* Time: an order timestamp is a tick count, TicksPerDay ticks to a day;   *)
(* the date widgets hold whole days.                                       *)
(***************************************************************************)
EXTENDS Integers, Sequences, FiniteSets, TLC

(***************************************************************************)
(* Bounds of the model and constants of the program.                       *)
(***************************************************************************)
MaxRows == 2            \* longest dataset drawn from RowPool
MaxDay == 1             \* the date widgets range over days 0..MaxDay
TicksPerDay == 2        \* tick 0 of a day is midnight, tick 1 is noon
MaxTopN == 4            \* the slider is explored over TopNMin..MaxTopN

TopNMin == 3            \* slider min_value
TopNMax == 30           \* slider max_value
TopNDefault == 12       \* slider value
ProductLimit == 10      \* .head(10)
DefaultMinDay == 0      \* pd.to_datetime("2020-01-01"), as a day number
DefaultMaxDay == 1460   \* pd.to_datetime("2023-12-31"), as a day number

(***************************************************************************)
(* Spreadsheet cells.  A numeric cell of the sheet is a number, an empty   *)
(* cell (NaN) or a text that is not a number.                              *)
(***************************************************************************)
Num(v) == [kind |-> "num", v |-> v]
Null == [kind |-> "null", v |-> 0]
Str == [kind |-> "str", v |-> 0]

\* A text cell (category, sku_id, sku_name) is a string; NaN marks an empty one.
NaN == "<NaN>"
\* order_date after pd.to_datetime(errors="coerce"): a tick count or NaT.
Ts(t) == [kind |-> "ts", v |-> t]
NaT == [kind |-> "NaT", v |-> 0]

\* The order of category labels that sorted() and groupby use (lexicographic).
CategoryNames == <<"A", "B", "C", "D", "E", "Unknown">>
CatRank(c) == CHOOSE i \in 1..Len(CategoryNames) : CategoryNames[i] = c

\* sku keys: a (sku_id, sku_name) pair, ordered lexicographically by groupby.
SkuIds == <<"S01", "S02", "S03", "S04", "S05", "S06", "S07", "S08", "S09", "S10", "S11">>
SkuNames == <<"n1", "n2">>
SkuRank(k) ==
    LET i == CHOOSE i \in 1..Len(SkuIds) : SkuIds[i] = k[1]
        j == CHOOSE j \in 1..Len(SkuNames) : SkuNames[j] = k[2]
    IN  i * (Len(SkuNames) + 1) + j

(***************************************************************************)
(* Exact fractions.                                                        *)
(***************************************************************************)
Abs(x) == IF x < 0 THEN 0 - x ELSE x
Sign(x) == IF x < 0 THEN 0 - 1 ELSE IF x > 0 THEN 1 ELSE 0

RECURSIVE GCD(_, _)
GCD(a, b) == IF b = 0 THEN a ELSE GCD(b, a % b)

\* n / d as a float division does it: a / 0 is inf, -inf or NaN (den = 0).
Div(n, d) ==
    IF d = 0 THEN [num |-> Sign(n), den |-> 0]
    ELSE LET g == GCD(Abs(n), Abs(d))
         IN  [num |-> (Sign(d) * n) \div g, den |-> Abs(d) \div g]

Zero == [num |-> 0, den |-> 1]
IsFinite(q) == q.den > 0

RatAdd(p, q) ==
    IF p.den = 0 \/ q.den = 0
    THEN (IF p.den = 0 /\ q.den = 0 /\ p.num # q.num THEN [num |-> 0, den |-> 0]
          ELSE IF p.den = 0 THEN p ELSE q)
    ELSE Div(p.num * q.den + q.num * p.den, p.den * q.den)

RatDivInt(p, k) ==
    IF p.den = 0 THEN p ELSE Div(p.num, p.den * k)


(***************************************************************************)
(* The spreadsheet read by pd.read_excel.  A raw row holds the cells of    *)
(* the columns id, order_date, category, after_discount, cogs, sku_id and  *)
(* sku_name; order_date is a parseable timestamp Num(t), empty, or a text  *)
(* that is no date.  When the sheet has no category column the rows carry  *)
(* NaN in that field and load_data never reads it.                         *)
(***************************************************************************)
At(day, tick) == day * TicksPerDay + tick

RawRow(id, od, cat, ad, cogs, sid, sname) ==
    [id |-> id, order_date |-> od, category |-> cat, after_discount |-> ad,
     cogs |-> cogs, sku_id |-> sid, sku_name |-> sname]

RowPool ==
    { RawRow(Num(1), Num(At(0, 0)), "A", Num(100), Num(40), "S01", "n1"),
      RawRow(Num(2), Num(At(1, 1)), "A", Null,     Num(10), "S02", "n1"),
      RawRow(Num(4), Num(At(0, 1)), "B", Num(100), Null,    NaN,   "n1"),
      RawRow(Num(5), Num(At(1, 0)), NaN, Num(50),  Num(10), "S01", "n1"),
      RawRow(Null,   Num(At(1, 0)), "B", Num(50),  Num(10), "S02", "n1"),
      RawRow(Num(7), Num(At(0, 0)), "C", Num(100), Str,     "S03", "n1"),
      RawRow(Num(8), Str,           "A", Num(200), Num(40), "S01", "n2") }

RECURSIVE SeqsUpTo(_, _)
SeqsUpTo(S, n) ==
    IF n = 0 THEN {<<>>}
    ELSE LET shorter == SeqsUpTo(S, n - 1)
         IN  shorter \cup {Append(s, x) : s \in shorter, x \in S}

Sheet(hasCategory, rows) == [file |-> TRUE, hasCategory |-> hasCategory, rows |-> rows]
NoFile == [file |-> FALSE, hasCategory |-> FALSE, rows |-> <<>>]

\* The scenario of the specification: A 100/40, A 50/10, B 200/150.
ScenarioRows ==
    << RawRow(Num(1), Num(At(0, 0)), "A", Num(100), Num(40),  "S01", "n1"),
       RawRow(Num(2), Num(At(1, 0)), "A", Num(50),  Num(10),  "S02", "n1"),
       RawRow(Num(3), Num(At(0, 1)), "B", Num(200), Num(150), "S03", "n1") >>

\* Five categories, more than the smallest top-N, with equal sales values.
CategoryRows ==
    << RawRow(Num(1), Num(At(0, 0)), "A", Num(100), Num(40),  "S01", "n1"),
       RawRow(Num(2), Num(At(0, 1)), "B", Num(200), Num(150), "S02", "n1"),
       RawRow(Num(3), Num(At(0, 1)), "C", Num(100), Num(10),  "S03", "n1"),
       RawRow(Num(4), Num(At(1, 0)), "D", Num(50),  Null,     "S04", "n1"),
       RawRow(Num(5), Num(At(1, 0)), "E", Num(200), Num(40),  "S05", "n1") >>

\* Eleven products, one more than the top-products table shows; S01 and S02 tie.
ProductRows ==
    [i \in 1..Len(SkuIds) |->
        RawRow(Num(i), Num(At(i % (MaxDay + 1), 0)), "A",
               Num(IF i = 1 THEN 20 ELSE 10 * i), Num(i), SkuIds[i], "n1")]

\* A sheet without a category column.
NoCategoryRows ==
    << RawRow(Num(1), Num(At(0, 0)), NaN, Num(100), Num(40), "S01", "n1"),
       RawRow(Num(2), Null,          NaN, Num(50),  Null,    "S02", "n1") >>

RawDatasets ==
    {Sheet(TRUE, rows) : rows \in SeqsUpTo(RowPool, MaxRows)}
    \cup {Sheet(TRUE, ScenarioRows), Sheet(TRUE, CategoryRows),
          Sheet(TRUE, ProductRows), Sheet(FALSE, NoCategoryRows), NoFile}

(***************************************************************************)
(* load_data                                                               *)
(***************************************************************************)
\* pd.to_datetime(errors="coerce"): what does not parse becomes NaT.
ToDatetimeCoerce(cell) == IF cell.kind = "num" THEN Ts(cell.v) ELSE NaT

\* Series.fillna(0)
FillNa0(cell) == IF cell.kind = "null" THEN Num(0) ELSE cell

\* pd.to_numeric (errors="raise"): a text that is no number raises ValueError.
ToNumericRaises(rows) == \E i \in 1..Len(rows) : FillNa0(rows[i].cogs).kind = "str"

\* The category column of the loaded frame: "Unknown" only when the sheet has
\* no such column; an empty cell of an existing column stays NaN.
LoadCategory(hasCategory, cat) == IF ~hasCategory THEN "Unknown" ELSE cat

LoadRow(hasCategory, r) ==
    LET sales == FillNa0(r.after_discount).v
        cogs == FillNa0(r.cogs).v
    IN  [id |-> r.id,
         order_date |-> ToDatetimeCoerce(r.order_date),
         category |-> LoadCategory(hasCategory, r.category),
         sales_value |-> sales,
         cogs |-> cogs,
         net_profit |-> sales - cogs,
         sku_id |-> r.sku_id,
         sku_name |-> r.sku_name]

load_data(sheet) == [i \in 1..Len(sheet.rows) |-> LoadRow(sheet.hasCategory, sheet.rows[i])]

(***************************************************************************)
(* Frame helpers: boolean-mask selection, column sums, sort_values.        *)
(***************************************************************************)
RECURSIVE SumSeq(_)
SumSeq(xs) == IF xs = <<>> THEN 0 ELSE Head(xs) + SumSeq(Tail(xs))

RECURSIVE RatSumSeq(_)
RatSumSeq(qs) == IF qs = <<>> THEN Zero ELSE RatAdd(Head(qs), RatSumSeq(Tail(qs)))

Column(frame, name) == [i \in 1..Len(frame) |-> frame[i][name]]

\* Series.count(): the cells that are not empty.
CountNotNull(cells) == Cardinality({i \in 1..Len(cells) : cells[i].kind # "null"})

\* Series.mean() of a column of quotients.
Mean(qs) == RatDivInt(RatSumSeq(qs), Len(qs))

\* The keys of a groupby in ascending order (groupby sorts its keys).
SortedCategories(S) ==
    [i \in 1..Cardinality(S) |->
        CHOOSE c \in S : Cardinality({y \in S : CatRank(y) < CatRank(c)}) = i - 1]
SortedSkus(S) ==
    [i \in 1..Cardinality(S) |->
        CHOOSE k \in S : Cardinality({y \in S : SkuRank(y) < SkuRank(k)}) = i - 1]

\* One step of a descending sort by sales_value: x goes behind the rows with a
\* larger value; among rows of equal value it goes behind them ("first": the
\* input order is kept) or before them ("last": the input order is reversed).
InsertDesc(sorted, x, tie) ==
    LET before == {i \in 1..Len(sorted) :
                      \/ sorted[i].sales_value > x.sales_value
                      \/ sorted[i].sales_value = x.sales_value /\ tie = "first"}
        n == Cardinality(before)
    IN  SubSeq(sorted, 1, n) \o <<x>> \o SubSeq(sorted, n + 1, Len(sorted))

RECURSIVE SortFrom(_, _, _, _)
SortFrom(frame, i, acc, tie) ==
    IF i > Len(frame) THEN acc
    ELSE SortFrom(frame, i + 1, InsertDesc(acc, frame[i], tie), tie)

\* frame.sort_values("sales_value", ascending=False) with the default
\* kind="quicksort", which is not a stable sort: the order it gives rows of
\* equal value is fixed by the numpy build (tie), not by pandas.
SortValuesDesc(frame, tie) == SortFrom(frame, 1, <<>>, tie)

\* The build's tie orders explored: equal rows keep or reverse their order.
TieOrders == {"first", "last"}

(***************************************************************************)
(* compute_summary                                                         *)
(***************************************************************************)
\* An absent bound (the defaults of the signature); the script itself always
\* passes both bounds, the midnights of the two widget dates.
None == [kind |-> "none", v |-> 0]

\* d["order_date"] >= start_date: a comparison with NaT is False.
OnOrAfter(od, start) == od.kind = "ts" /\ od.v >= start.v
OnOrBefore(od, end) == od.kind = "ts" /\ od.v <= end.v

FilterStart(d, start) ==
    IF start.kind # "none" THEN SelectSeq(d, LAMBDA r : OnOrAfter(r.order_date, start)) ELSE d
FilterEnd(d, end) ==
    IF end.kind # "none" THEN SelectSeq(d, LAMBDA r : OnOrBefore(r.order_date, end)) ELSE d
\* if selected_categories and len(selected_categories) > 0
FilterCategoriesOff(d, selected) == d
FilterCategories(d, selected) ==
    IF selected # {} THEN SelectSeq(d, LAMBDA r : r.category \in selected) ELSE d

FilterRows(df, start, end, selected) ==
    FilterCategories(FilterEnd(FilterStart(df, start), end), selected)

\* np.where(transactions > 0, sales_value / transactions, 0)
AOVUnguarded(sales, transactions) == Div(sales, transactions)
AOV(sales, transactions) == IF transactions > 0 THEN Div(sales, transactions) ELSE Zero

\* d.groupby("category").agg(...): rows with a NaN key belong to no group
\* (dropna=True); transactions counts the non-empty id cells.
CategoryGroup(d, c) ==
    LET g == SelectSeq(d, LAMBDA r : r.category = c)
        sales == SumSeq(Column(g, "sales_value"))
        tx == CountNotNull(Column(g, "id"))
    IN  [category |-> c,
         sales_value |-> sales,
         net_profit |-> SumSeq(Column(g, "net_profit")),
         transactions |-> tx,
         AOV |-> AOV(sales, tx)]

GroupByCategory(d) ==
    LET keys == SortedCategories({d[i].category : i \in 1..Len(d)} \ {NaN})
    IN  [k \in 1..Len(keys) |-> CategoryGroup(d, keys[k])]

AvgAovUnguarded(summary) == Mean(Column(summary, "AOV"))
AvgAovWeighted(summary) ==
    IF Len(summary) > 0
    THEN Div(SumSeq(Column(summary, "sales_value")), SumSeq(Column(summary, "transactions")))
    ELSE Zero
AvgAov(summary) == IF Len(summary) > 0 THEN Mean(Column(summary, "AOV")) ELSE Zero

TotalsCountGroups(summary) ==
    [total_sales |-> SumSeq(Column(summary, "sales_value")),
     total_profit |-> SumSeq(Column(summary, "net_profit")),
     avg_aov |-> AvgAov(summary),
     transactions |-> Len(summary)]
Totals(summary) ==
    [total_sales |-> SumSeq(Column(summary, "sales_value")),
     total_profit |-> SumSeq(Column(summary, "net_profit")),
     avg_aov |-> AvgAov(summary),
     transactions |-> SumSeq(Column(summary, "transactions"))]

compute_summary(df, start, end, selected, tie) ==
    LET d == FilterRows(df, start, end, selected)
        summary == SortValuesDesc(GroupByCategory(d), tie)
    IN  [summary |-> summary, totals |-> Totals(summary)]

(***************************************************************************)
(* summary.nlargest(top_n, "sales_value"), keep="first".  With n below the  *)
(* length pandas selects the n largest by a stable sort, earlier rows      *)
(* first among equals; otherwise it returns sort_values(ascending=False)   *)
(* .head(n), a second sort of the default kind.                            *)
(***************************************************************************)
FirstN(frame, n) == SubSeq(frame, 1, IF n < Len(frame) THEN n ELSE Len(frame))

nlargest(frame, n, tie) ==
    IF n >= Len(frame) THEN FirstN(SortValuesDesc(frame, tie), n)
    ELSE FirstN(SortValuesDesc(frame, "first"), n)

(***************************************************************************)
(* Top products: category filter only, groupby (sku_id, sku_name), sort,   *)
(* head(10).                                                               *)
(***************************************************************************)
ProductGroup(d, k) ==
    LET g == SelectSeq(d, LAMBDA r : r.sku_id = k[1] /\ r.sku_name = k[2])
    IN  [sku_id |-> k[1], sku_name |-> k[2],
         sales_value |-> SumSeq(Column(g, "sales_value")),
         transactions |-> CountNotNull(Column(g, "id"))]

GroupByProduct(d) ==
    LET present == {<<d[i].sku_id, d[i].sku_name>> : i \in 1..Len(d)}
        keys == SortedSkus({k \in present : k[1] # NaN /\ k[2] # NaN})
    IN  [j \in 1..Len(keys) |-> ProductGroup(d, keys[j])]

\* if selected_categories: prod = prod[prod["category"].isin(...)]
ProductRowsDated(df, start, end, selected) == FilterRows(df, start, end, selected)
ProductInput(df, start, end, selected) == FilterCategories(df, selected)

top_products(df, start, end, selected, tie) ==
    FirstN(SortValuesDesc(GroupByProduct(ProductInput(df, start, end, selected)), tie),
           ProductLimit)

(***************************************************************************)
(* The script: state, widgets and one run from top to bottom.              *)
(***************************************************************************)
VARIABLES
    sheet,                  \* the spreadsheet at DATA_PATH (or no file)
    tie,                    \* how the build's default sort orders equal values
    pc,                     \* "load", "ready", "stopped" (st.stop) or "error"
    df,                     \* the cached result of load_data
    start_date, end_date,   \* the date_input range, in days
    all_categories,         \* the options of the category multiselect
    selected_categories,    \* the multiselect's selection
    top_n,                  \* the slider
    summary,                \* compute_summary's summary (line 75)
    totals,                 \* compute_summary's totals
    top_summary,            \* summary after nlargest (line 78), as shown
    prod                    \* the top-products table

vars == <<sheet, tie, pc, df, start_date, end_date, all_categories,
          selected_categories, top_n, summary, totals, top_summary, prod>>

Days == 0..MaxDay
\* st.sidebar.slider(min_value=3, max_value=30, value=12, step=1)
TopNs == {n \in TopNMin..TopNMax : n <= MaxTopN} \cup {TopNDefault}

\* Timestamp.date() and pd.to_datetime(date): a date is its day's midnight.
DateOf(t) == t \div TicksPerDay
ToDatetime(day) == Ts(day * TicksPerDay)

Dated(frame) == {frame[i].order_date.v : i \in {j \in 1..Len(frame) : frame[j].order_date.kind = "ts"}}
Min(S) == CHOOSE x \in S : \A y \in S : x <= y
Max(S) == CHOOSE x \in S : \A y \in S : x >= y

\* min_date.date() and max_date.date(), the date_input's default range
MinDate(frame) == IF Dated(frame) # {} THEN DateOf(Min(Dated(frame))) ELSE DefaultMinDay
MaxDate(frame) == IF Dated(frame) # {} THEN DateOf(Max(Dated(frame))) ELSE DefaultMaxDay

\* sorted(df["category"].fillna("Unknown").unique()), as a set
AllCategories(frame) ==
    {IF frame[i].category = NaN THEN "Unknown" ELSE frame[i].category : i \in 1..Len(frame)}

\* Lines 75 to 78 and 167 to 173: everything a run derives from the widgets.
RunScript(frame, s, e, selected, n) ==
    LET cs == compute_summary(frame, ToDatetime(s), ToDatetime(e), selected, tie)
    IN  /\ summary' = cs.summary
        /\ totals' = cs.totals
        /\ top_summary' = nlargest(cs.summary, n, tie)
        /\ prod' = top_products(frame, ToDatetime(s), ToDatetime(e), selected, tie)

NoTotals == [total_sales |-> 0, total_profit |-> 0, avg_aov |-> Zero, transactions |-> 0]

Init ==
    /\ sheet \in RawDatasets
    /\ tie \in TieOrders
    /\ pc = "load"
    /\ df = <<>>
    /\ start_date = DefaultMinDay
    /\ end_date = DefaultMaxDay
    /\ all_categories = {}
    /\ selected_categories = {}
    /\ top_n = TopNDefault
    /\ summary = <<>>
    /\ totals = NoTotals
    /\ top_summary = <<>>
    /\ prod = <<>>

\* except FileNotFoundError: st.sidebar.error(...); st.stop()
LoadMissingFile ==
    /\ pc = "load"
    /\ ~sheet.file
    /\ pc' = "stopped"
    /\ UNCHANGED <<sheet, tie, df, start_date, end_date, all_categories,
                   selected_categories, top_n, summary, totals, top_summary, prod>>

\* pd.to_numeric raises ValueError on a cogs cell that is no number; nothing
\* catches it and the script ends without rendering.
LoadRaises ==
    /\ pc = "load"
    /\ sheet.file
    /\ ToNumericRaises(sheet.rows)
    /\ pc' = "error"
    /\ UNCHANGED <<sheet, tie, df, start_date, end_date, all_categories,
                   selected_categories, top_n, summary, totals, top_summary, prod>>

\* The first run: load_data, every widget at its default, all tables computed.
FirstRun ==
    /\ pc = "load"
    /\ sheet.file
    /\ ~ToNumericRaises(sheet.rows)
    /\ LET frame == load_data(sheet)
       IN  /\ df' = frame
           /\ start_date' = MinDate(frame)
           /\ end_date' = MaxDate(frame)
           /\ all_categories' = AllCategories(frame)
           /\ selected_categories' = AllCategories(frame)
           /\ top_n' = TopNDefault
           /\ RunScript(frame, MinDate(frame), MaxDate(frame), AllCategories(frame), TopNDefault)
    /\ pc' = "ready"
    /\ UNCHANGED <<sheet, tie>>

\* The user picks another date range; the script runs again.
SetDateRange ==
    /\ pc = "ready"
    /\ \E s \in Days, e \in Days :
          /\ s <= e
          /\ start_date' = s
          /\ end_date' = e
          /\ RunScript(df, s, e, selected_categories, top_n)
    /\ UNCHANGED <<sheet, tie, pc, df, all_categories, selected_categories, top_n>>

\* The user changes the category selection; the script runs again.
SetCategories ==
    /\ pc = "ready"
    /\ \E selected \in SUBSET all_categories :
          /\ selected_categories' = selected
          /\ RunScript(df, start_date, end_date, selected, top_n)
    /\ UNCHANGED <<sheet, tie, pc, df, start_date, end_date, all_categories, top_n>>

\* The user moves the top-N slider; the script runs again.
SetTopN ==
    /\ pc = "ready"
    /\ \E n \in TopNs :
          /\ top_n' = n
          /\ RunScript(df, start_date, end_date, selected_categories, n)
    /\ UNCHANGED <<sheet, tie, pc, df, start_date, end_date, all_categories,
                   selected_categories>>

Next ==
    \/ LoadMissingFile
    \/ LoadRaises
    \/ FirstRun
    \/ SetDateRange
    \/ SetCategories
    \/ SetTopN

Spec == Init /\ [][Next]_vars

TypeOK ==
    /\ pc \in {"load", "ready", "stopped", "error"}
    /\ tie \in TieOrders
    /\ top_n \in TopNs
    /\ selected_categories \subseteq all_categories
    /\ Len(top_summary) <= Len(summary)

(***************************************************************************)
(* Properties.  The expected values below are computed from df and the     *)
(* widgets by index sets, not by the operators of the script.              *)
(***************************************************************************)
RECURSIVE SumOver(_, _)
SumOver(S, f) ==
    IF S = {} THEN 0
    ELSE LET x == CHOOSE y \in S : TRUE IN f[x] + SumOver(S \ {x}, f)

RECURSIVE ProductOver(_, _)
ProductOver(S, f) ==
    IF S = {} THEN 1
    ELSE LET x == CHOOSE y \in S : TRUE IN f[x] * ProductOver(S \ {x}, f)

Rows == 1..Len(df)
Groups == 1..Len(summary)
Sales == [i \in Rows |-> df[i].sales_value]
Profit == [i \in Rows |-> df[i].net_profit]
HasId == [i \in Rows |-> IF df[i].id.kind = "null" THEN 0 ELSE 1]

PassesCategories(i) == selected_categories = {} \/ df[i].category \in selected_categories
\* Rows whose timestamp is between the midnights of start_date and end_date.
InTimestampRange(i) ==
    /\ df[i].order_date.kind = "ts"
    /\ df[i].order_date.v >= start_date * TicksPerDay
    /\ df[i].order_date.v <= end_date * TicksPerDay
\* Rows whose timestamp falls on a day from start_date to end_date.
InDateRange(i) ==
    /\ df[i].order_date.kind = "ts"
    /\ DateOf(df[i].order_date.v) >= start_date
    /\ DateOf(df[i].order_date.v) <= end_date

Kept == {i \in Rows : InTimestampRange(i) /\ PassesCategories(i)}
Grouped == {i \in Kept : df[i].category # NaN}
SummaryCategories == {summary[g].category : g \in Groups}

\* C1: total_sales, total_profit and transactions are the sums of the three
\* columns over all groups of the summary; the groups are all categories
\* that survive the filter, whatever the top-N cut keeps, so the totals are
\* also the sums over the surviving rows of those categories.
C1_TotalsSumAllGroups ==
    pc = "ready" =>
        /\ SummaryCategories = {df[i].category : i \in Grouped}
        /\ totals.total_sales = SumOver(Groups, [g \in Groups |-> summary[g].sales_value])
        /\ totals.total_profit = SumOver(Groups, [g \in Groups |-> summary[g].net_profit])
        /\ totals.transactions = SumOver(Groups, [g \in Groups |-> summary[g].transactions])
        /\ totals.total_sales = SumOver(Grouped, Sales)
        /\ totals.total_profit = SumOver(Grouped, Profit)
        /\ totals.transactions = SumOver(Grouped, HasId)

\* The cut drops a group with sales and transactions, and the totals still count it.
C1_Witness ==
    /\ pc = "ready"
    /\ Len(top_summary) < Len(summary)
    /\ summary[Len(summary)].sales_value > 0
    /\ summary[Len(summary)].transactions > 0
    /\ totals.transactions > Len(summary) - 1

\* C2: a group's AOV is sales_value / transactions when it has transactions
\* and exactly 0 when it has none; it is never inf or NaN.
C2_AovGuarded ==
    pc = "ready" =>
        \A g \in Groups :
            /\ IsFinite(summary[g].AOV)
            /\ summary[g].transactions > 0 =>
                   summary[g].AOV.num * summary[g].transactions
                       = summary[g].sales_value * summary[g].AOV.den
            /\ summary[g].transactions = 0 => summary[g].AOV = Zero

\* A group with sales but no counted transaction beside one with a real quotient.
C2_Witness ==
    /\ pc = "ready"
    /\ \E g \in Groups : summary[g].transactions = 0 /\ summary[g].sales_value > 0
    /\ \E g \in Groups : summary[g].transactions > 0 /\ summary[g].AOV.num > 0

\* The per-group AOVs over a common denominator: the sum of
\* sales_value * (D / transactions), D the product of the transaction counts.
Counted == {g \in Groups : summary[g].transactions > 0}
CommonDen == ProductOver(Counted, [g \in Counted |-> summary[g].transactions])
ScaledAovSum ==
    SumOver(Counted, [g \in Counted |->
        summary[g].sales_value * (CommonDen \div summary[g].transactions)])

ScenarioLoaded ==
    /\ pc = "ready"
    /\ sheet = Sheet(TRUE, ScenarioRows)
    /\ start_date = 0 /\ end_date = MaxDate(df)
    /\ selected_categories = all_categories

\* C3: avg_aov is the arithmetic mean of the groups' AOVs (0 when there is no
\* group); for the scenario A(150, 2 tx), B(200, 1 tx) it is 137.5 = 275/2.
C3_AvgAovIsMeanOfMeans ==
    pc = "ready" =>
        /\ Len(summary) = 0 => totals.avg_aov = Zero
        /\ Len(summary) > 0 =>
               /\ IsFinite(totals.avg_aov)
               /\ totals.avg_aov.num * Len(summary) * CommonDen
                      = ScaledAovSum * totals.avg_aov.den
        /\ ScenarioLoaded => totals.avg_aov = [num |-> 275, den |-> 2]

\* The scenario, where the mean of means differs from total sales / transactions.
C3_Witness ==
    /\ ScenarioLoaded
    /\ totals.transactions > 0
    /\ totals.avg_aov # Div(totals.total_sales, totals.transactions)

\* C4: when the dataset is empty or no row survives the filter, the run ends
\* normally with an empty summary and totals that are all exactly 0.
C4_EmptyGivesZeros ==
    (pc = "ready" /\ Kept = {}) =>
        /\ summary = <<>>
        /\ top_summary = <<>>
        /\ totals.total_sales = 0
        /\ totals.total_profit = 0
        /\ totals.avg_aov = Zero
        /\ totals.transactions = 0

\* A dataset with rows, none of which survives the chosen filter.
C4_Witness ==
    /\ pc = "ready"
    /\ \E i \in Rows : df[i].order_date.kind = "ts" /\ df[i].category # NaN
    /\ Kept = {}

\* C5: the summary aggregates exactly the rows whose order timestamp falls on
\* a day from start_date to end_date, both days included.
C5_DateBoundsInclusive ==
    pc = "ready" =>
        LET expected == {i \in Rows : InDateRange(i) /\ PassesCategories(i)
                                      /\ df[i].category # NaN}
        IN  /\ SummaryCategories = {df[i].category : i \in expected}
            /\ totals.total_sales = SumOver(expected, Sales)
            /\ totals.transactions = SumOver(expected, HasId)

\* C6: a row whose category cell is missing is loaded as category "Unknown"
\* and, when it survives the filter, is aggregated into the "Unknown" group.
C6_MissingCategoryIsUnknown ==
    pc = "ready" =>
        \A i \in Rows :
            sheet.rows[i].category = NaN =>
                /\ df[i].category = "Unknown"
                /\ (InTimestampRange(i) /\ PassesCategories(i))
                       => "Unknown" \in SummaryCategories

\* C7: a sheet with a missing or non-numeric cogs cell loads without an error,
\* the cell as 0, and the row's net profit is its full sales value.
C7_BadCogsLoadsAsZero ==
    (sheet.file /\ pc # "load") =>
        /\ pc = "ready"
        /\ \A i \in Rows :
               sheet.rows[i].cogs.kind \in {"null", "str"} =>
                   df[i].cogs = 0 /\ df[i].net_profit = df[i].sales_value

\* The (sku_id, sku_name) pairs of the rows that pass the category filter alone.
CategoryRowsOf(k) ==
    {i \in Rows : PassesCategories(i) /\ df[i].sku_id = k[1] /\ df[i].sku_name = k[2]}
ProductKeys ==
    {k \in {<<df[i].sku_id, df[i].sku_name>> : i \in {j \in Rows : PassesCategories(j)}} :
        k[1] # NaN /\ k[2] # NaN}
ShownKeys == {<<prod[j].sku_id, prod[j].sku_name>> : j \in 1..Len(prod)}

C8_ProductsOfCategoryRows ==
    pc = "ready" =>
        /\ Len(prod) = (IF Cardinality(ProductKeys) < ProductLimit
                        THEN Cardinality(ProductKeys) ELSE ProductLimit)
        /\ Cardinality(ShownKeys) = Len(prod)
        /\ ShownKeys \subseteq ProductKeys
        /\ \A j \in 1..Len(prod) :
               LET rows == CategoryRowsOf(<<prod[j].sku_id, prod[j].sku_name>>)
               IN  /\ prod[j].sales_value = SumOver(rows, Sales)
                   /\ prod[j].transactions = SumOver(rows, HasId)
        /\ \A j \in 1..Len(prod) : \A k \in 1..Len(prod) :
               j < k => prod[j].sales_value >= prod[k].sales_value
        /\ \A k \in ProductKeys \ ShownKeys :
               SumOver(CategoryRowsOf(k), Sales) <= prod[Len(prod)].sales_value

\* C8: the top-products table is made of the (sku_id, sku_name) groups of the
\* rows that pass the category filter, whatever their dates, with summed
\* sales and counted transactions, in descending order of sales and cut to
\* the 10 largest; a change of the date range alone leaves it as it is.
C8_TopProductsIgnoreDates ==
    /\ []C8_ProductsOfCategoryRows
    /\ [][(pc = "ready" /\ selected_categories' = selected_categories) => prod' = prod]_vars

\* More than 10 products, and a shown product with a row outside the date range.
C8_Witness ==
    /\ pc = "ready"
    /\ Cardinality(ProductKeys) > ProductLimit
    /\ Len(prod) = ProductLimit
    /\ \E j \in 1..Len(prod) :
           \E i \in CategoryRowsOf(<<prod[j].sku_id, prod[j].sku_name>>) :
               ~InTimestampRange(i)

\* C9: with a selection, every category of the summary is selected; with an
\* empty selection, every category of the date-filtered rows is in the summary.
C9_CategoriesWithinSelection ==
    pc = "ready" =>
        /\ selected_categories # {} => SummaryCategories \subseteq selected_categories
        /\ selected_categories = {} =>
               SummaryCategories
                   = {df[i].category : i \in {j \in Rows : InTimestampRange(j)}} \ {NaN}

\* A selection that leaves out the category of a row inside the date range.
C9_Witness ==
    /\ pc = "ready"
    /\ selected_categories # {}
    /\ summary # <<>>
    /\ \E i \in Rows : InTimestampRange(i) /\ df[i].category \notin selected_categories
                       /\ df[i].category # NaN

\* C10: the summary is in descending order of sales, and the shown summary is
\* its first min(top_n, length) groups in the same order, so that cutting the
\* shown summary again changes nothing.
C10_TopNIsPrefix ==
    pc = "ready" =>
        /\ \A g \in Groups : \A h \in Groups :
               g < h => summary[g].sales_value >= summary[h].sales_value
        /\ top_summary = SubSeq(summary, 1, IF top_n < Len(summary) THEN top_n ELSE Len(summary))
        /\ nlargest(top_summary, top_n, tie) = top_summary

=============================================================================
